---------------------------- MODULE Spec2Model ----------------------------
(***************************************************************************)
(* notifi-printer: three source adapters (github, bsky, twitch) turn        *)
(* upstream events into print jobs, send them through one bounded mpsc      *)
(* channel to the printer task (process_prints), which writes each job and  *)
(* a closing trailer to the printer's TCP stream.  main spawns the four     *)
(* tasks on a TaskTracker, waits for CTRL+C, cancels the shared             *)
(* CancellationToken and waits for the tracker.                             *)
(*                                                                         *)
(* Every unit is modelled at the granularity of its await points: pc[u] is  *)
(* the await the task is suspended at, and one action is the code that runs *)
(* from the completion of that await to the next one.  The outcome of a     *)
(* network exchange, of a timer and of an unbiased select! is a choice of   *)
(* the environment.                                                         *)
(***************************************************************************)
EXTENDS Naturals, Sequences, FiniteSets

(* mpsc::channel::<PrintData>(16) *)
QueueCap == 16

(* BROADCASTER_IDS has four entries *)
NumBroadcasters == 4

(* Bounds of the model *)
MaxEvents == 2      \* upstream events delivered to the adapters, in total
MaxBatch == 2       \* events carried by one list response
NumTokens == 1      \* distinct Last-Modified values the server hands out
MaxExtra == 1       \* events beyond the queue capacity in the flooding scenario
MaxFairEvents == 1  \* upstream events in the runs checked for liveness
MaxMsgLen == 3      \* characters of a message body given to the encoder

Adapters == {"github", "twitch", "bsky"}
Tasks == Adapters \cup {"printer"}
Units == Tasks \cup {"main"}
Terminal == {"done", "panicked"}

(* The four writes of one job: encode(job), feed 6 lines, full cut, form feed *)
Segments == <<"print_data", "feed", "cut", "form_feed">>

NoJob == <<>>
None == 0

VARIABLES
    pc,                  \* [Units -> STRING]: the await each unit is suspended at
    cancelled,           \* cancel_token has been cancelled
    queue,               \* the channel's buffer, oldest job first
    made,                \* [Adapters -> Nat]: jobs of each adapter accepted by the channel
    left,                \* events upstream will still deliver during the run
    feed,                \* the adapters whose upstream has events during the run
    stamps,              \* the values the servers hand out during the run (github's
                         \* Last-Modified values, twitch's session ids)
    reasons,             \* [Adapters -> kinds of event]: what each upstream reports during the run
    tapped,              \* the adapters whose upstream traffic is recorded during the run
    wire,                \* the recorded traffic: <<adapter, kind>> of each event delivered,
                         \* <<"github", "Last-Modified", value>> of the latest such header,
                         \* <<"twitch", frame, url>> of the latest frame that ended a connection
    given,               \* the item a conversion is applied to (<<>>: none)
    result,              \* <<what the conversion gave>> (<<>>: not applied yet)
    printer,             \* what has been written to the TCP stream: <<job, segment, complete>>
    data,                \* process_prints: the job received and being written
    widx,                \* process_prints: index of the write_all in progress (0: none)
    last_modified_time,  \* github: Option<Box<str>>, None = 0
    notifs,              \* github: events of the current response not yet handled
    access_token,        \* bsky: access_token.is_some()
    refresh_jwt,         \* bsky: refresh_jwt.is_some()
    unread,              \* bsky: unread notifications not yet handled
    custom_connect_url,  \* twitch: Option<Box<str>>, None = 0
    subs,                \* twitch: subscription requests issued so far by the for loop (0 outside it)
    session_id           \* twitch: the session id of this iteration's welcome_message, None = 0

chanVars == <<queue, made>>
dispVars == <<printer, data, widx>>
ghVars == <<last_modified_time, notifs>>
bsVars == <<access_token, refresh_jwt, unread>>
twVars == <<custom_connect_url, subs, session_id>>
envVars == <<left, feed, stamps, reasons, tapped, wire, given, result>>
vars == <<pc, cancelled, envVars, chanVars, dispVars, ghVars, bsVars, twVars>>

(* Events the upstream of adapter a can still deliver *)
Quota(a) == IF a \in feed THEN left ELSE 0

(* The record of the traffic after adapter a received the events evs *)
Tap(a, evs) == IF a \in tapped THEN wire \o [i \in 1..Len(evs) |-> <<a, evs[i]>>] ELSE wire

IsEvent(entry) == Len(entry) = 2

(* The record after github received a response with Last-Modified lm (or   *)
(* without one, None) and the events evs: the header, then the events.  Of  *)
(* the headers the record keeps the latest only.                            *)
TapResponse(lm, evs) ==
    IF "github" \in tapped
    THEN (IF lm = 0 THEN wire
          ELSE Append(SelectSeq(wire, IsEvent), <<"github", "Last-Modified", lm>>))
         \o [i \in 1..Len(evs) |-> <<"github", evs[i]>>]
    ELSE wire

Min(a, b) == IF a < b THEN a ELSE b

SeqsUpTo(S, n) == UNION {[1..k -> S] : k \in 0..n}

Goto(u, p) == pc' = [pc EXCEPT ![u] = p]

----------------------------------------------------------------------------
(* The channel                                                              *)

(* The receiver lives in process_prints; it is dropped when that task ends *)
ReceiverAlive == pc["printer"] \notin Terminal

NextJob(a) == <<a, made[a] + 1>>

(* Mutant of Enqueue: a channel without a capacity *)
Enqueue_Unbounded(a) ==
    /\ ReceiverAlive
    /\ queue' = Append(queue, NextJob(a))
    /\ made' = [made EXCEPT ![a] = @ + 1]

(* sender.send(job).await resolving Ok: a permit was free *)
Enqueue(a) ==
    /\ ReceiverAlive
    /\ Len(queue) < QueueCap
    /\ queue' = Append(queue, NextJob(a))
    /\ made' = [made EXCEPT ![a] = @ + 1]

(* Mutant of SendFails: a send never resolves Err *)
SendFails_Never == FALSE

(* sender.send(job).await resolving Err: the receiver is gone *)
SendFails == ~ReceiverAlive

----------------------------------------------------------------------------
(* Upstream events, by kind                                                 *)

(* github.rs: the reasons of the match arm that makes a job *)
CommentLike == {"manual", "comment", "author"}

(* What github's server can report: the three reasons above, "mention" and *)
(* "subscribed" for the reasons of the other arm, "malformed" for an event *)
(* lacking a field the code unwraps (id, reason, latest_comment_url, ...)  *)
GhKinds == CommentLike \cup {"mention", "subscribed", "malformed"}

(* What bsky's server can report: "like" is the reason the code mutes,     *)
(* "quote" stands for a reason it does not know, "malformed" for an event  *)
(* lacking a field it unwraps, "like_untimed" for a like without           *)
(* record.createdAt, which is unwrapped before the match on the reason     *)
BsKinds == {"follow", "reply", "like", "quote", "malformed", "like_untimed"}

(* The reason field of a bsky event of kind k *)
BsReason(k) == IF k = "like_untimed" THEN "like" ELSE k

(* The kinds of event that count against the run's budget *)
AllKinds(a) ==
    CASE a = "github" -> GhKinds
      [] a = "bsky" -> BsKinds
      [] a = "twitch" -> {"notification"}

(* The kinds a run has when no adapter is under observation *)
UsualKinds(a) ==
    CASE a = "github" -> {"comment", "mention", "malformed"}
      [] a = "bsky" -> {"follow", "reply", "like", "quote", "malformed"}
      [] a = "twitch" -> {"notification"}

----------------------------------------------------------------------------
(* main                                                                     *)

Constructed ==
    /\ pc = [u \in Units |-> CASE u = "main" -> "ctrl_c"
                               [] u = "printer" -> "select"
                               [] OTHER -> "start"]
    /\ cancelled = FALSE
    /\ queue = <<>>
    /\ made = [a \in Adapters |-> 0]
    /\ printer = <<>>
    /\ data = NoJob
    /\ widx = 0
    /\ last_modified_time = None
    /\ notifs = <<>>
    /\ access_token = FALSE
    /\ refresh_jwt = FALSE
    /\ unread = <<>>
    /\ custom_connect_url = None
    /\ subs = 0
    /\ session_id = None

(* What upstream delivers is an input of the run: at most MaxEvents       *)
(* events, from any of the three sources, of the usual kinds, and one      *)
(* Last-Modified value                                                     *)
Init ==
    /\ Constructed
    /\ left = MaxEvents
    /\ feed = Adapters
    /\ stamps = {1}
    /\ reasons = [a \in Adapters |-> UsualKinds(a)]
    /\ tapped = {}
    /\ wire = <<>>
    /\ given = <<>>
    /\ result = <<>>

(* ctrl_c() resolves; cancel_token.cancel(); task_tracker.close() *)
Interrupt ==
    /\ pc["main"] = "ctrl_c"
    /\ cancelled' = TRUE
    /\ Goto("main", "wait")
    /\ UNCHANGED <<envVars, chanVars, dispVars, ghVars, bsVars, twVars>>

AllTasksEnded == \A t \in Tasks : pc[t] \in Terminal

(* Mutant of MainExit: main returns without waiting for the tracker *)
MainExit_NoWait ==
    /\ pc["main"] = "wait"
    /\ Goto("main", "exited")
    /\ UNCHANGED <<cancelled, envVars, chanVars, dispVars, ghVars, bsVars, twVars>>

(* task_tracker.wait() resolves once the tracker is closed and empty *)
MainExit ==
    /\ pc["main"] = "wait"
    /\ AllTasksEnded
    /\ Goto("main", "exited")
    /\ UNCHANGED <<cancelled, envVars, chanVars, dispVars, ghVars, bsVars, twVars>>

----------------------------------------------------------------------------
(* process_prints                                                           *)

(* Mutant of DispCancel: the cancel arm logs and does not break *)
DispCancel_NoBreak ==
    /\ pc["printer"] = "select"
    /\ cancelled
    /\ UNCHANGED vars

(* select! arm: cancel.cancelled() => break.  The task ends and its        *)
(* receiver is dropped, which drops the jobs still buffered.               *)
DispCancel ==
    /\ pc["printer"] = "select"
    /\ cancelled
    /\ Goto("printer", "done")
    /\ queue' = <<>>
    /\ UNCHANGED <<cancelled, envVars, made, dispVars, ghVars, bsVars, twVars>>

(* Mutant of DispRecv: the receiver hands out the newest job *)
DispRecv_Newest ==
    /\ pc["printer"] = "select"
    /\ queue # <<>>
    /\ data' = queue[Len(queue)]
    /\ queue' = SubSeq(queue, 1, Len(queue) - 1)
    /\ widx' = 1
    /\ Goto("printer", "write")
    /\ UNCHANGED <<cancelled, envVars, made, printer, ghVars, bsVars, twVars>>

(* select! arm: Some(data) = receiver.recv().  select! has no `biased;`,   *)
(* so this arm can win also when the cancel arm is ready.                  *)
DispRecv ==
    /\ pc["printer"] = "select"
    /\ queue # <<>>
    /\ data' = Head(queue)
    /\ queue' = Tail(queue)
    /\ widx' = 1
    /\ Goto("printer", "write")
    /\ UNCHANGED <<cancelled, envVars, made, printer, ghVars, bsVars, twVars>>

(* Mutant of DispWriteDone: the form feed that ends the job is left out *)
DispWriteDone_NoFormFeed ==
    /\ pc["printer"] = "write"
    /\ printer' = Append(printer, <<data, widx, TRUE>>)
    /\ IF widx < Len(Segments) - 1
       THEN /\ widx' = widx + 1
            /\ UNCHANGED <<pc, data>>
       ELSE /\ widx' = 0
            /\ data' = NoJob
            /\ Goto("printer", "select")
    /\ UNCHANGED <<cancelled, envVars, chanVars, ghVars, bsVars, twVars>>

(* write_all(..).await resolves Ok: the whole buffer is on the stream; the *)
(* next write_all follows, or the loop goes back to select! after the last *)
DispWriteDone ==
    /\ pc["printer"] = "write"
    /\ printer' = Append(printer, <<data, widx, TRUE>>)
    /\ IF widx < Len(Segments)
       THEN /\ widx' = widx + 1
            /\ UNCHANGED <<pc, data>>
       ELSE /\ widx' = 0
            /\ data' = NoJob
            /\ Goto("printer", "select")
    /\ UNCHANGED <<cancelled, envVars, chanVars, ghVars, bsVars, twVars>>

(* Mutant of DispWriteFail: a failed write is retried from the start of the job *)
DispWriteFail_Retry ==
    /\ pc["printer"] = "write"
    /\ printer' = Append(printer, <<data, widx, FALSE>>)
    /\ widx' = 1
    /\ UNCHANGED <<pc, cancelled, envVars, chanVars, data, ghVars, bsVars, twVars>>

(* write_all(..).await resolves Err, after the socket took none or a part  *)
(* of the buffer: unwrap() panics, the task ends and the receiver is       *)
(* dropped with the jobs still buffered                                    *)
DispWriteFail ==
    /\ pc["printer"] = "write"
    /\ \E some \in BOOLEAN :
        printer' = IF some THEN Append(printer, <<data, widx, FALSE>>) ELSE printer
    /\ Goto("printer", "panicked")
    /\ queue' = <<>>
    /\ data' = NoJob
    /\ widx' = 0
    /\ UNCHANGED <<cancelled, envVars, made, ghVars, bsVars, twVars>>

PrinterStep == DispCancel \/ DispRecv \/ DispWriteDone \/ DispWriteFail

----------------------------------------------------------------------------
(* service::github::start_service                                           *)

(* A task that ends drops its locals *)
GhDropped == last_modified_time' = None /\ notifs' = <<>>

(* Top of the loop up to req.send().await *)
GhLoopTop == IF cancelled THEN "done" ELSE "list"

(* The for loop over the events, run up to its next await: an event with  *)
(* an unhandled reason is logged and passed over (no await, no effect), and *)
(* nothing after a malformed event is ever looked at.  GhScan(s) is s       *)
(* without the events the loop passes over or never reaches.                *)
RECURSIVE GhScan(_)
RECURSIVE GhScan_MentionsToo(_)

(* Mutant of GhScan: a mention is handled like a comment *)
GhScan_MentionsToo(s) ==
    IF s = <<>> THEN <<>>
    ELSE IF Head(s) = "malformed" THEN <<"malformed">>
    ELSE IF Head(s) \notin CommentLike \cup {"mention"} THEN GhScan_MentionsToo(Tail(s))
    ELSE <<Head(s)>> \o GhScan_MentionsToo(Tail(s))

GhScan(s) ==
    IF s = <<>> THEN <<>>
    ELSE IF Head(s) = "malformed" THEN <<"malformed">>
    ELSE IF Head(s) \notin CommentLike THEN GhScan(Tail(s))
    ELSE <<Head(s)>> \o GhScan(Tail(s))

(* Where the for loop suspends (or ends) with events s left *)
GhAfter(s) ==
    IF s = <<>> THEN "sleep_poll"
    ELSE IF Head(s) = "malformed" THEN "panicked"
    ELSE "detail"

GhContinue(s) ==
    /\ Goto("github", GhAfter(s))
    /\ IF GhAfter(s) = "panicked"
       THEN GhDropped
       ELSE notifs' = s /\ UNCHANGED last_modified_time

GhGoto(p) ==
    /\ Goto("github", p)
    /\ IF p \in Terminal THEN GhDropped ELSE UNCHANGED ghVars

GhStart ==
    /\ pc["github"] = "start"
    /\ GhGoto(GhLoopTop)
    /\ UNCHANGED <<cancelled, envVars, chanVars, dispVars, bsVars, twVars>>

(* req.send().await is Err: log, sleep 5 s *)
GhListErr ==
    /\ pc["github"] = "list"
    /\ GhGoto("sleep5")
    /\ UNCHANGED <<cancelled, envVars, chanVars, dispVars, bsVars, twVars>>

(* Mutant of GhSleep5: the wait goes on into the poll-interval wait *)
GhSleep5_ThenPollInterval ==
    /\ pc["github"] = "sleep5"
    /\ GhGoto("sleep_poll")
    /\ UNCHANGED <<cancelled, envVars, chanVars, dispVars, bsVars, twVars>>

(* the 5 s sleep elapses; continue *)
GhSleep5 ==
    /\ pc["github"] = "sleep5"
    /\ GhGoto(GhLoopTop)
    /\ UNCHANGED <<cancelled, envVars, chanVars, dispVars, bsVars, twVars>>

(* Mutant of GhListOk: a response without Last-Modified clears the value *)
GhListOk_TokenCleared ==
    /\ pc["github"] = "list"
    /\ \E lm \in {None} \cup stamps, b \in SeqsUpTo(reasons["github"], Min(Quota("github"), MaxBatch)) :
        LET rest == GhScan(b) IN
        /\ left' = left - Len(b)
        /\ wire' = TapResponse(lm, b)
        /\ Goto("github", GhAfter(rest))
        /\ IF GhAfter(rest) = "panicked"
           THEN GhDropped
           ELSE /\ notifs' = rest
                /\ last_modified_time' = lm
    /\ UNCHANGED <<cancelled, feed, stamps, reasons, tapped, given, result, chanVars, dispVars, bsVars, twVars>>

(* The response arrives with a JSON array of events: Last-Modified, when   *)
(* present, replaces the stored value; then the for loop starts            *)
GhListOk ==
    /\ pc["github"] = "list"
    /\ \E lm \in {None} \cup stamps, b \in SeqsUpTo(reasons["github"], Min(Quota("github"), MaxBatch)) :
        LET rest == GhScan(b) IN
        /\ left' = left - Len(b)
        /\ wire' = TapResponse(lm, b)
        /\ Goto("github", GhAfter(rest))
        /\ IF GhAfter(rest) = "panicked"
           THEN GhDropped
           ELSE /\ notifs' = rest
                /\ last_modified_time' = IF lm = None THEN last_modified_time ELSE lm
    /\ UNCHANGED <<cancelled, feed, stamps, reasons, tapped, given, result, chanVars, dispVars, bsVars, twVars>>

(* The response cannot be used: a header that does not parse, a body that  *)
(* is not JSON (an empty 304 body) or not an array: unwrap/expect panics   *)
GhListBad ==
    /\ pc["github"] = "list"
    /\ GhGoto("panicked")
    /\ UNCHANGED <<cancelled, envVars, chanVars, dispVars, bsVars, twVars>>

(* Mutant of GhDetailOk: the thread is marked read before the job is sent *)
GhDetailOk_MarkFirst ==
    /\ pc["github"] = "detail"
    /\ GhGoto("mark")
    /\ UNCHANGED <<cancelled, envVars, chanVars, dispVars, bsVars, twVars>>

(* The detail fetch succeeds and has user.login and body: build the job    *)
GhDetailOk ==
    /\ pc["github"] = "detail"
    /\ GhGoto("send")
    /\ UNCHANGED <<cancelled, envVars, chanVars, dispVars, bsVars, twVars>>

(* The detail fetch fails or lacks a field: expect/unwrap panics *)
GhDetailFail ==
    /\ pc["github"] = "detail"
    /\ GhGoto("panicked")
    /\ UNCHANGED <<cancelled, envVars, chanVars, dispVars, bsVars, twVars>>

(* sender.send(..).await is Ok; then the PATCH that marks the thread read  *)
GhSend ==
    /\ pc["github"] = "send"
    /\ Enqueue("github")
    /\ GhGoto("mark")
    /\ UNCHANGED <<cancelled, envVars, dispVars, bsVars, twVars>>

(* sender.send(..).await is Err: unwrap panics *)
GhSendClosed ==
    /\ pc["github"] = "send"
    /\ SendFails
    /\ GhGoto("panicked")
    /\ UNCHANGED <<cancelled, envVars, chanVars, dispVars, bsVars, twVars>>

(* The PATCH answers 205: next event *)
GhMarkOk ==
    /\ pc["github"] = "mark"
    /\ GhContinue(Tail(notifs))
    /\ UNCHANGED <<cancelled, envVars, chanVars, dispVars, bsVars, twVars>>

(* The PATCH fails, or answers another status: unwrap / assert! panics *)
GhMarkFail ==
    /\ pc["github"] = "mark"
    /\ GhGoto("panicked")
    /\ UNCHANGED <<cancelled, envVars, chanVars, dispVars, bsVars, twVars>>

(* select! arm: the poll interval elapses *)
GhSleepPoll ==
    /\ pc["github"] = "sleep_poll"
    /\ GhGoto(GhLoopTop)
    /\ UNCHANGED <<cancelled, envVars, chanVars, dispVars, bsVars, twVars>>

(* select! arm: cancel_token.cancelled() => break *)
GhSleepCancel ==
    /\ pc["github"] = "sleep_poll"
    /\ cancelled
    /\ GhGoto("done")
    /\ UNCHANGED <<cancelled, envVars, chanVars, dispVars, bsVars, twVars>>

GithubStep ==
    \/ GhStart \/ GhListErr \/ GhSleep5 \/ GhListOk \/ GhListBad
    \/ GhDetailOk \/ GhDetailFail \/ GhSend \/ GhSendClosed
    \/ GhMarkOk \/ GhMarkFail \/ GhSleepPoll \/ GhSleepCancel

----------------------------------------------------------------------------
(* service::bsky::start_service                                             *)

BsDropped == access_token' = FALSE /\ refresh_jwt' = FALSE /\ unread' = <<>>

(* Mutant of BsLoopTop: a missing access token leads to a new login *)
BsLoopTop_LoginOnExpiry(acc, ref) ==
    IF cancelled THEN "done"
    ELSE IF ~ref \/ ~acc THEN "login"
    ELSE "list"

(* Top of the loop up to its first await, with tokens acc and ref *)
BsLoopTop(acc, ref) ==
    IF cancelled THEN "done"
    ELSE IF ~ref THEN "login"
    ELSE IF ~acc THEN "refresh"
    ELSE "list"

(* The for loop over the unread events up to its next await: a muted or   *)
(* unknown reason is passed over (no await, no effect), and nothing after a *)
(* malformed event is ever looked at.  BsScan(s) is s without the events    *)
(* the loop passes over or never reaches.                                   *)
RECURSIVE BsScan(_)
BsScan(s) ==
    IF s = <<>> THEN <<>>
    ELSE IF Head(s) \in {"malformed", "like_untimed"} THEN <<Head(s)>>
    ELSE IF Head(s) \in {"like", "quote"} THEN BsScan(Tail(s))
    ELSE <<Head(s)>> \o BsScan(Tail(s))

(* Where the for loop suspends with events s left; after the last event    *)
(* comes update_last_read_notification                                     *)
BsAfter(s) ==
    IF s = <<>> THEN "update_seen"
    ELSE IF Head(s) \in {"malformed", "like_untimed"} THEN "panicked"
    ELSE IF Head(s) = "follow" THEN "profile"
    ELSE "send"

BsGoto(p, acc, ref, evs) ==
    /\ Goto("bsky", p)
    /\ IF p \in Terminal
       THEN BsDropped
       ELSE access_token' = acc /\ refresh_jwt' = ref /\ unread' = evs

BsStart ==
    /\ pc["bsky"] = "start"
    /\ BsGoto(BsLoopTop(access_token, refresh_jwt), access_token, refresh_jwt, unread)
    /\ UNCHANGED <<cancelled, envVars, chanVars, dispVars, ghVars, twVars>>

(* create_session returns the two tokens; the list request follows *)
BsLoginOk ==
    /\ pc["bsky"] = "login"
    /\ BsGoto("list", TRUE, TRUE, unread)
    /\ UNCHANGED <<cancelled, envVars, chanVars, dispVars, ghVars, twVars>>

(* create_session: transport error, status other than 200, or a token      *)
(* missing: unwrap / assert! / expect panics                               *)
BsLoginFail ==
    /\ pc["bsky"] = "login"
    /\ BsGoto("panicked", FALSE, FALSE, <<>>)
    /\ UNCHANGED <<cancelled, envVars, chanVars, dispVars, ghVars, twVars>>

(* Mutant of BsRefreshOk: the answer's refresh token is not stored *)
BsRefreshOk_RefreshTokenLost ==
    /\ pc["bsky"] = "refresh"
    /\ BsGoto("list", TRUE, FALSE, unread)
    /\ UNCHANGED <<cancelled, envVars, chanVars, dispVars, ghVars, twVars>>

(* refresh_session returns Ok: both tokens replaced; the list request follows *)
BsRefreshOk ==
    /\ pc["bsky"] = "refresh"
    /\ BsGoto("list", TRUE, TRUE, unread)
    /\ UNCHANGED <<cancelled, envVars, chanVars, dispVars, ghVars, twVars>>

(* Mutant of BsRefreshDenied: the list request follows the refused refresh *)
BsRefreshDenied_ListsAnyway ==
    /\ pc["bsky"] = "refresh"
    /\ BsGoto("list", access_token, FALSE, unread)
    /\ UNCHANGED <<cancelled, envVars, chanVars, dispVars, ghVars, twVars>>

(* refresh_session returns Err (status other than 200): refresh_jwt = None; continue *)
BsRefreshDenied ==
    /\ pc["bsky"] = "refresh"
    /\ BsGoto(BsLoopTop(access_token, FALSE), access_token, FALSE, unread)
    /\ UNCHANGED <<cancelled, envVars, chanVars, dispVars, ghVars, twVars>>

(* refresh_session: transport error or a token missing: unwrap / expect panics *)
BsRefreshFail ==
    /\ pc["bsky"] = "refresh"
    /\ BsGoto("panicked", FALSE, FALSE, <<>>)
    /\ UNCHANGED <<cancelled, envVars, chanVars, dispVars, ghVars, twVars>>

(* get_unread_notifications returns Err(ExpiredToken) (status 400):        *)
(* access_token = None; continue                                           *)
BsListExpired ==
    /\ pc["bsky"] = "list"
    /\ BsGoto(BsLoopTop(FALSE, refresh_jwt), FALSE, refresh_jwt, unread)
    /\ UNCHANGED <<cancelled, envVars, chanVars, dispVars, ghVars, twVars>>

(* get_unread_notifications returns Ok(list): an empty list goes to the    *)
(* 10 s sleep, another one into the for loop                               *)
BsListOk ==
    /\ pc["bsky"] = "list"
    /\ \E b \in SeqsUpTo(reasons["bsky"], Min(Quota("bsky"), MaxBatch)) :
        /\ left' = left - Len(b)
        /\ wire' = Tap("bsky", b)
        /\ IF b = <<>>
           THEN BsGoto("sleep10", access_token, refresh_jwt, <<>>)
           ELSE BsGoto(BsAfter(BsScan(b)), access_token, refresh_jwt, BsScan(b))
    /\ UNCHANGED <<cancelled, feed, stamps, reasons, tapped, given, result, chanVars, dispVars, ghVars, twVars>>

(* get_unread_notifications: transport error, Err(BadRequest) for any      *)
(* other status, or a body without a notifications array: unwrap panics    *)
BsListFail ==
    /\ pc["bsky"] = "list"
    /\ BsGoto("panicked", FALSE, FALSE, <<>>)
    /\ UNCHANGED <<cancelled, envVars, chanVars, dispVars, ghVars, twVars>>

(* get_profile_info returns Ok: the follower job is built and sent *)
BsProfileOk ==
    /\ pc["bsky"] = "profile"
    /\ BsGoto("send", access_token, refresh_jwt, unread)
    /\ UNCHANGED <<cancelled, envVars, chanVars, dispVars, ghVars, twVars>>

(* get_profile_info: transport error, 401 or a profile that does not       *)
(* deserialize: unwrap panics                                              *)
BsProfileFail ==
    /\ pc["bsky"] = "profile"
    /\ BsGoto("panicked", FALSE, FALSE, <<>>)
    /\ UNCHANGED <<cancelled, envVars, chanVars, dispVars, ghVars, twVars>>

(* sender.send(print_data).await is Ok: next event *)
BsSend ==
    /\ pc["bsky"] = "send"
    /\ Enqueue("bsky")
    /\ BsGoto(BsAfter(Tail(unread)), access_token, refresh_jwt, Tail(unread))
    /\ UNCHANGED <<cancelled, envVars, dispVars, ghVars, twVars>>

(* sender.send(print_data).await is Err: unwrap panics *)
BsSendClosed ==
    /\ pc["bsky"] = "send"
    /\ SendFails
    /\ BsGoto("panicked", FALSE, FALSE, <<>>)
    /\ UNCHANGED <<cancelled, envVars, chanVars, dispVars, ghVars, twVars>>

(* update_last_read_notification returns Ok(()) *)
BsSeenOk ==
    /\ pc["bsky"] = "update_seen"
    /\ BsGoto("sleep10", access_token, refresh_jwt, unread)
    /\ UNCHANGED <<cancelled, envVars, chanVars, dispVars, ghVars, twVars>>

(* update_last_read_notification: transport error (unwrap) or a status     *)
(* other than 200 (assert!) panics; the function has no Err return         *)
BsSeenFail ==
    /\ pc["bsky"] = "update_seen"
    /\ BsGoto("panicked", FALSE, FALSE, <<>>)
    /\ UNCHANGED <<cancelled, envVars, chanVars, dispVars, ghVars, twVars>>

(* select!: the 10 s sleep elapses or the token is cancelled; both arms    *)
(* are empty and the loop starts over                                      *)
BsSleep10 ==
    /\ pc["bsky"] = "sleep10"
    /\ BsGoto(BsLoopTop(access_token, refresh_jwt), access_token, refresh_jwt, unread)
    /\ UNCHANGED <<cancelled, envVars, chanVars, dispVars, ghVars, twVars>>

BskyStep ==
    \/ BsStart \/ BsLoginOk \/ BsLoginFail \/ BsRefreshOk \/ BsRefreshDenied
    \/ BsRefreshFail \/ BsListExpired \/ BsListOk \/ BsListFail
    \/ BsProfileOk \/ BsProfileFail \/ BsSend \/ BsSendClosed
    \/ BsSeenOk \/ BsSeenFail \/ BsSleep10

----------------------------------------------------------------------------
(* service::twitch::start_service                                           *)

(* What stream.next() can yield in the inner loop as Some(Ok(message)):    *)
(* Text frames by message_type ("no_type": none, "bad_json": not JSON,     *)
(* "notif_no_id": a notification without broadcaster_user_id), other frame *)
(* kinds ("non_text": Ping | Pong | Frame | Binary) and Close              *)
TwFrames == {"session_keepalive", "session_reconnect", "notification", "notif_no_id",
             "revocation", "no_type", "bad_json", "non_text", "close"}

TwDropped == custom_connect_url' = None /\ subs' = 0 /\ session_id' = None

(* DEFAULT_WS_URL, and the reconnect_url a session_reconnect message carries *)
DEFAULT_WS_URL == 1
RECONNECT_URL == 2

(* The url the outer loop connects to: custom_connect_url, or the default *)
ConnectUrl(custom) == IF custom = None THEN DEFAULT_WS_URL ELSE custom

(* The record after twitch received the frame f that ends the connection,   *)
(* or saw the stream end ("stream_end": None or Some(Err) from next()):     *)
(* <<"twitch", f, the reconnect_url it carries>>, of which the record keeps *)
(* the latest only                                                          *)
TapControl(f) ==
    IF "twitch" \in tapped
    THEN Append(SelectSeq(wire, IsEvent),
                <<"twitch", f, IF f = "session_reconnect" THEN RECONNECT_URL ELSE None>>)
    ELSE wire

(* The record after twitch received the welcome with session id sid *)
TapWelcome(sid) ==
    IF "twitch" \in tapped
    THEN Append(SelectSeq(wire, IsEvent), <<"twitch", "session_welcome", sid>>)
    ELSE wire

(* welcome_message, and session_id with it, lives for one iteration of the *)
(* outer loop                                                              *)
TwGoto(p) ==
    /\ Goto("twitch", p)
    /\ IF p \in Terminal THEN TwDropped
       ELSE IF p = "connect" THEN session_id' = None /\ UNCHANGED <<custom_connect_url, subs>>
       ELSE UNCHANGED twVars

(* After break out of the inner loop: if cancel_token.is_cancelled() break, *)
(* else the outer loop connects again                                      *)
TwAfterBreak == IF cancelled THEN "done" ELSE "connect"

TwStart ==
    /\ pc["twitch"] = "start"
    /\ TwGoto("connect")
    /\ UNCHANGED <<cancelled, envVars, chanVars, dispVars, ghVars, bsVars>>

(* connect_async_tls_with_config resolves Ok *)
TwConnectOk ==
    /\ pc["twitch"] = "connect"
    /\ TwGoto("ping")
    /\ UNCHANGED <<cancelled, envVars, chanVars, dispVars, ghVars, bsVars>>

(* connect_async_tls_with_config resolves Err: unwrap panics *)
TwConnectFail ==
    /\ pc["twitch"] = "connect"
    /\ TwGoto("panicked")
    /\ UNCHANGED <<cancelled, envVars, chanVars, dispVars, ghVars, bsVars>>

(* stream.next().await: whatever comes first is discarded *)
TwPing ==
    /\ pc["twitch"] = "ping"
    /\ TwGoto("welcome")
    /\ UNCHANGED <<cancelled, envVars, chanVars, dispVars, ghVars, bsVars>>

(* Mutant of TwWelcomeOk: the session id is not the one of this welcome *)
TwWelcomeOk_StaleSession ==
    /\ pc["twitch"] = "welcome"
    /\ Goto("twitch", IF custom_connect_url = None THEN "subscribe" ELSE "streaming")
    /\ subs' = 0
    /\ \E sid \in stamps :
        /\ session_id' = CHOOSE s \in stamps : TRUE
        /\ wire' = TapWelcome(sid)
    /\ UNCHANGED <<cancelled, left, feed, stamps, reasons, tapped, given, result,
                   chanVars, dispVars, ghVars, bsVars, custom_connect_url>>

(* The second frame is a text frame with JSON: its session id is taken, and *)
(* subscriptions are registered when no custom connect url is set          *)
TwWelcomeOk ==
    /\ pc["twitch"] = "welcome"
    /\ Goto("twitch", IF custom_connect_url = None THEN "subscribe" ELSE "streaming")
    /\ subs' = 0
    /\ \E sid \in stamps :
        /\ session_id' = sid
        /\ wire' = TapWelcome(sid)
    /\ UNCHANGED <<cancelled, left, feed, stamps, reasons, tapped, given, result,
                   chanVars, dispVars, ghVars, bsVars, custom_connect_url>>

(* The second frame is missing, an error, not text or not JSON: panic *)
TwWelcomeFail ==
    /\ pc["twitch"] = "welcome"
    /\ TwGoto("panicked")
    /\ UNCHANGED <<cancelled, envVars, chanVars, dispVars, ghVars, bsVars>>

(* One subscription request is answered (any status) and its body read;   *)
(* after the last one the for loop ends and the inner loop starts          *)
TwSubscribeOk ==
    /\ pc["twitch"] = "subscribe"
    /\ subs' = IF subs + 1 = NumBroadcasters THEN 0 ELSE subs + 1
    /\ Goto("twitch", IF subs + 1 = NumBroadcasters THEN "streaming" ELSE "subscribe")
    /\ UNCHANGED <<cancelled, envVars, chanVars, dispVars, ghVars, bsVars, custom_connect_url, session_id>>

(* The subscription request or the read of its body fails: expect / unwrap panics *)
TwSubscribeFail ==
    /\ pc["twitch"] = "subscribe"
    /\ TwGoto("panicked")
    /\ UNCHANGED <<cancelled, envVars, chanVars, dispVars, ghVars, bsVars>>

(* In the inner select!, "stream_ended" is the select! whose stream arm is *)
(* disabled because stream.next() gave None or Some(Err)                   *)
TwInSelect == pc["twitch"] \in {"streaming", "stream_ended"}

(* select! arm: cancel_token.cancelled(): stream.close(None).await begins *)
TwCancel ==
    /\ TwInSelect
    /\ cancelled
    /\ TwGoto("close_cancel")
    /\ UNCHANGED <<cancelled, envVars, chanVars, dispVars, ghVars, bsVars>>

(* stream.close(None).await of the cancel arm returns (its result is       *)
(* ignored): break; the token is cancelled, so the outer loop breaks too   *)
TwCancelClosed ==
    /\ pc["twitch"] = "close_cancel"
    /\ TwGoto("done")
    /\ UNCHANGED <<cancelled, envVars, chanVars, dispVars, ghVars, bsVars>>

(* Mutant of TwTimeout: the sleep is raced against the frames only *)
TwTimeout_FramesOnly ==
    /\ pc["twitch"] = "streaming"
    /\ TwGoto("close_timeout")
    /\ UNCHANGED <<cancelled, envVars, chanVars, dispVars, ghVars, bsVars>>

(* select! arm: 40 s went by without the select! completing:               *)
(* stream.close(None).await begins                                         *)
TwTimeout ==
    /\ TwInSelect
    /\ TwGoto("close_timeout")
    /\ UNCHANGED <<cancelled, envVars, chanVars, dispVars, ghVars, bsVars>>

(* Mutant of TwTimeoutClosed: the timeout arm returns from the service *)
TwTimeoutClosed_Return ==
    /\ pc["twitch"] = "close_timeout"
    /\ TwGoto("done")
    /\ UNCHANGED <<cancelled, envVars, chanVars, dispVars, ghVars, bsVars>>

(* stream.close(None).await of the timeout arm returns (its result is      *)
(* ignored): custom_connect_url = None; break                              *)
TwTimeoutClosed ==
    /\ pc["twitch"] = "close_timeout"
    /\ Goto("twitch", TwAfterBreak)
    /\ custom_connect_url' = None
    /\ session_id' = None
    /\ subs' = IF TwAfterBreak \in Terminal THEN 0 ELSE subs
    /\ UNCHANGED <<cancelled, envVars, chanVars, dispVars, ghVars, bsVars>>

(* What the handler of frame f does next *)
TwOnFrame(f) ==
    CASE f \in {"session_keepalive", "notif_no_id", "revocation", "no_type", "non_text"}
            -> "streaming"
      [] f \in {"session_reconnect", "close"} -> TwAfterBreak
      [] f = "notification" -> "channel_info"
      [] f = "bad_json" -> "panicked"

(* select! arm: Some(Ok(message)) = stream.next() *)
TwFrame ==
    /\ pc["twitch"] = "streaming"
    /\ \E f \in TwFrames :
        /\ f = "notification" => Quota("twitch") > 0
        /\ left' = IF f = "notification" THEN left - 1 ELSE left
        /\ wire' = CASE f = "notification" -> Tap("twitch", <<f>>)
                     [] f \in {"session_reconnect", "close"} -> TapControl(f)
                     [] OTHER -> wire
        /\ TwGoto(TwOnFrame(f))
    /\ UNCHANGED <<cancelled, feed, stamps, reasons, tapped, given, result, chanVars, dispVars, ghVars, bsVars>>

(* stream.next() yields None or Some(Err): the pattern does not match, the *)
(* arm is disabled and the select! goes on waiting on the other two        *)
TwStreamEnd ==
    /\ pc["twitch"] = "streaming"
    /\ wire' = TapControl("stream_end")
    /\ TwGoto("stream_ended")
    /\ UNCHANGED <<cancelled, left, feed, stamps, reasons, tapped, given, result,
                   chanVars, dispVars, ghVars, bsVars>>

(* The channel lookup answers with the channel's data: the job is built *)
TwChannelInfoOk ==
    /\ pc["twitch"] = "channel_info"
    /\ TwGoto("send")
    /\ UNCHANGED <<cancelled, envVars, chanVars, dispVars, ghVars, bsVars>>

(* The answer is not JSON: log, continue *)
TwChannelInfoSkip ==
    /\ pc["twitch"] = "channel_info"
    /\ TwGoto("streaming")
    /\ UNCHANGED <<cancelled, envVars, chanVars, dispVars, ghVars, bsVars>>

(* The lookup fails, or its JSON lacks data / title / game_name / tags /   *)
(* broadcaster_name / a timestamp: expect / unwrap panics                  *)
TwChannelInfoFail ==
    /\ pc["twitch"] = "channel_info"
    /\ TwGoto("panicked")
    /\ UNCHANGED <<cancelled, envVars, chanVars, dispVars, ghVars, bsVars>>

(* sender.send(..).await is Ok: back to the select! *)
TwSend ==
    /\ pc["twitch"] = "send"
    /\ Enqueue("twitch")
    /\ TwGoto("streaming")
    /\ UNCHANGED <<cancelled, envVars, dispVars, ghVars, bsVars>>

(* sender.send(..).await is Err: unwrap panics *)
TwSendClosed ==
    /\ pc["twitch"] = "send"
    /\ SendFails
    /\ TwGoto("panicked")
    /\ UNCHANGED <<cancelled, envVars, chanVars, dispVars, ghVars, bsVars>>

TwitchStep ==
    \/ TwStart \/ TwConnectOk \/ TwConnectFail \/ TwPing \/ TwWelcomeOk \/ TwWelcomeFail
    \/ TwSubscribeOk \/ TwSubscribeFail \/ TwCancel \/ TwCancelClosed
    \/ TwTimeout \/ TwTimeoutClosed \/ TwFrame \/ TwStreamEnd
    \/ TwChannelInfoOk \/ TwChannelInfoSkip \/ TwChannelInfoFail \/ TwSend \/ TwSendClosed

----------------------------------------------------------------------------
(* What the handlers make of one upstream item.  Text is a string, an       *)
(* Option<String> is <<>> for None and <<s>> for Some(s).                   *)

(* Mutant of GhPrintData: author and body are set on one line *)
GhPrintData_OneLine(notif, latest_comment_data) ==
    [title |-> "GitHub: New Issue Comment",
     subtitle |-> <<"Repo: " \o notif.repository \o "\n" \o notif.title>>,
     message |-> <<latest_comment_data.login \o ": " \o latest_comment_data.body>>,
     timestamp |-> notif.updated_at]

(* The PrintData built at github.rs:92-105 *)
GhPrintData(notif, latest_comment_data) ==
    [title |-> "GitHub: New Issue Comment",
     subtitle |-> <<"Repo: " \o notif.repository \o "\n" \o notif.title>>,
     message |-> <<latest_comment_data.login \o ":\n" \o latest_comment_data.body>>,
     timestamp |-> notif.updated_at]

(* The body of github's for loop on one well-formed event whose detail     *)
(* fetch answered latest_comment_data: the jobs it sends, and what follows *)
(* ("mark": the PATCH that marks the thread read, "next": the next event)  *)
GhHandle(notif, latest_comment_data) ==
    IF notif.reason \in CommentLike
    THEN [sent |-> <<GhPrintData(notif, latest_comment_data)>>, then |-> "mark"]
    ELSE [sent |-> <<>>, then |-> "next"]

(* The events and details the conversion is tried on *)
GhGiven ==
    [fn : {"github"},
     notif : [reason : GhKinds \ {"malformed"},
              repository : {"org/app", "cli/cli"},
              title : {"Bug 42", "Typo"},
              updated_at : {"2024-01-01T00:00:00Z"}],
     latest_comment_data : [login : {"alice", "bob"}, body : {"looks good", "no"}]]

GhConvert ==
    /\ given.fn = "github"
    /\ result = <<>>
    /\ result' = <<GhHandle(given.notif, given.latest_comment_data)>>
    /\ UNCHANGED <<pc, cancelled, left, feed, stamps, reasons, tapped, wire, given,
                   chanVars, dispVars, ghVars, bsVars, twVars>>

(* tags_stringified.join(sep) *)
RECURSIVE Join(_, _)
Join(strs, sep) ==
    IF strs = <<>> THEN ""
    ELSE IF Len(strs) = 1 THEN strs[1]
    ELSE strs[1] \o sep \o Join(Tail(strs), sep)

(* Mutant of TwPrintData: the tags are joined without a separator *)
TwPrintData_Unjoined(frame, channel_info) ==
    [title |-> "Twitch: " \o channel_info.broadcaster_name \o " is Live",
     subtitle |-> <<>>,
     message |-> <<channel_info.title \o "\n\nCategory: " \o channel_info.game_name
                   \o "\nTags: " \o Join(channel_info.tags, "")>>,
     timestamp |-> frame.message_timestamp]

(* The PrintData built at twitch.rs:191-202 *)
TwPrintData(frame, channel_info) ==
    [title |-> "Twitch: " \o channel_info.broadcaster_name \o " is Live",
     subtitle |-> <<>>,
     message |-> <<channel_info.title \o "\n\nCategory: " \o channel_info.game_name
                   \o "\nTags: " \o Join(channel_info.tags, ", ")>>,
     timestamp |-> frame.message_timestamp]

(* The Message::Text arm on one frame, lookup being the answer of the      *)
(* channel lookup (<<>> when it is not JSON): the jobs it sends, and what   *)
(* follows ("streaming": the next pass of the select! on the same          *)
(* connection, "break": out of the inner loop)                             *)
TwHandle(frame, lookup) ==
    CASE frame.message_type = "session_reconnect" -> [sent |-> <<>>, then |-> "break"]
      [] frame.message_type = "notification" /\ frame.broadcaster_user_id # <<>> /\ lookup # <<>> ->
            [sent |-> <<TwPrintData(frame, lookup[1])>>, then |-> "streaming"]
      [] OTHER -> [sent |-> <<>>, then |-> "streaming"]

(* The frames and lookup answers the conversion is tried on *)
TwGiven ==
    [fn : {"twitch"},
     frame : [message_type : {"session_keepalive", "session_reconnect", "notification"},
             broadcaster_user_id : {<<>>, <<"88547576">>},
             message_timestamp : {"2024-01-01T00:00:00Z"}],
     lookup : {<<>>} \cup
              {<<c>> : c \in [title : {"Playing games"},
                              game_name : {"Indie", ""},
                              tags : {<<>>, <<"chill">>, <<"chill", "co-op">>},
                              broadcaster_name : {"RTGame", "narpy"}]}]

TwConvert ==
    /\ given.fn = "twitch"
    /\ result = <<>>
    /\ result' = <<TwHandle(given.frame, given.lookup)>>
    /\ UNCHANGED <<pc, cancelled, left, feed, stamps, reasons, tapped, wire, given,
                   chanVars, dispVars, ghVars, bsVars, twVars>>

----------------------------------------------------------------------------
(* printer.rs: PrintData::into_print_data.  Here text is a sequence of      *)
(* chars (Unicode code points), the output a sequence of bytes.             *)

ESC == 27
GS == 29
LF == 10

JUSTIFY_LEFT == <<ESC, 97, 0>>
JUSTIFY_CENTER == <<ESC, 97, 1>>

(* char::is_whitespace: the code points with the White_Space property *)
IsWhitespace(c) ==
    c \in (9..13) \cup {32, 133, 160, 5760} \cup (8192..8202)
          \cup {8232, 8233, 8239, 8287, 12288}

(* str::trim: without the leading and the trailing whitespace *)
Trim(str) ==
    LET keep == {i \in 1..Len(str) : ~IsWhitespace(str[i])} IN
    IF keep = {} THEN <<>>
    ELSE SubSeq(str, CHOOSE i \in keep : \A j \in keep : i <= j,
                     CHOOSE i \in keep : \A j \in keep : j <= i)

(* `c as u8`: a cast of char to u8 keeps the low eight bits *)
AsU8(c) == c % 256

(* The UTF-8 bytes of one char (str::as_bytes), up to U+FFFF *)
Utf8Char(c) ==
    IF c < 128 THEN <<c>>
    ELSE IF c < 2048 THEN <<192 + (c \div 64), 128 + (c % 64)>>
    ELSE <<224 + (c \div 4096), 128 + ((c \div 64) % 64), 128 + (c % 64)>>

RECURSIVE AsBytes(_)
AsBytes(str) == IF str = <<>> THEN <<>> ELSE Utf8Char(Head(str)) \o AsBytes(Tail(str))

(* message.trim().chars().map(..).collect::<Vec<u8>>() *)
ProcessedMessage(message) ==
    LET trimmed == Trim(message) IN
    [i \in 1..Len(trimmed) |->
        IF IsWhitespace(trimmed[i]) /\ trimmed[i] # 32 THEN LF ELSE AsU8(trimmed[i])]

(* chrono's format("%B %e, %r") of a timestamp [month, day, hour, minute,  *)
(* second]: month name, day padded with a space, 12-hour clock, AM or PM   *)
MonthName(m) ==
    CASE m = 1 -> <<74, 97, 110, 117, 97, 114, 121>>
      [] m = 12 -> <<68, 101, 99, 101, 109, 98, 101, 114>>

TwoDigits(n) == <<48 + (n \div 10), 48 + (n % 10)>>

HumanTime(ts) ==
    MonthName(ts.month) \o <<32>>
    \o (IF ts.day < 10 THEN <<32, 48 + ts.day>> ELSE TwoDigits(ts.day)) \o <<44, 32>>
    \o TwoDigits(IF ts.hour % 12 = 0 THEN 12 ELSE ts.hour % 12) \o <<58>>
    \o TwoDigits(ts.minute) \o <<58>> \o TwoDigits(ts.second) \o <<32>>
    \o (IF ts.hour < 12 THEN <<65, 77>> ELSE <<80, 77>>)

(* "Timestamp: " *)
TimestampLabel == <<84, 105, 109, 101, 115, 116, 97, 109, 112, 58, 32>>

(* The 48 bytes of [b'-'].repeat(48) *)
SeparatorLine == [i \in 1..48 |-> 45]

(* Mutant of into_print_data: the message is written before the subtitle *)
into_print_data_MessageFirst(self) ==
    <<ESC, 64>> \o <<GS, 98, 1>> \o <<ESC, 77, 1>>
    \o JUSTIFY_CENTER \o <<GS, 33, 17>> \o AsBytes(self.title) \o <<LF>>
    \o <<ESC, 100, 0>> \o <<ESC, 77, 0>> \o <<GS, 33, 0>> \o JUSTIFY_LEFT
    \o (IF self.message # <<>>
        THEN <<ESC, 100, 1>> \o ProcessedMessage(self.message[1]) \o <<LF>>
        ELSE <<>>)
    \o (IF self.subtitle # <<>>
        THEN <<ESC, 100, 0>> \o AsBytes(self.subtitle[1]) \o <<LF>> \o SeparatorLine \o <<LF>>
        ELSE <<>>)
    \o <<ESC, 100, 1>> \o TimestampLabel \o HumanTime(self.timestamp) \o <<LF>>

(* printer.rs:27-78, one extend_from_slice after the other *)
into_print_data(self) ==
    <<ESC, 64>> \o <<GS, 98, 1>> \o <<ESC, 77, 1>>
    \o JUSTIFY_CENTER \o <<GS, 33, 17>> \o AsBytes(self.title) \o <<LF>>
    \o <<ESC, 100, 0>> \o <<ESC, 77, 0>> \o <<GS, 33, 0>> \o JUSTIFY_LEFT
    \o (IF self.subtitle # <<>>
        THEN <<ESC, 100, 0>> \o AsBytes(self.subtitle[1]) \o <<LF>> \o SeparatorLine \o <<LF>>
        ELSE <<>>)
    \o (IF self.message # <<>>
        THEN <<ESC, 100, 1>> \o ProcessedMessage(self.message[1]) \o <<LF>>
        ELSE <<>>)
    \o <<ESC, 100, 1>> \o TimestampLabel \o HumanTime(self.timestamp) \o <<LF>>

(* The chars message bodies are made of: tab, line feed, space, "a",       *)
(* no-break space (U+00A0) and U+010A                                      *)
Chars == {9, 10, 32, 97, 160, 266}

(* The jobs the encoder is tried on: titles "Hi" and U+00E9, subtitle "R"  *)
EncGiven ==
    [fn : {"into_print_data"},
     self : [title : {<<72, 105>>, <<233>>},
             subtitle : {<<>>, <<<<82>>>>},
             message : {<<>>} \cup {<<m>> : m \in SeqsUpTo(Chars, MaxMsgLen)},
             timestamp : {[month |-> 1, day |-> 1, hour |-> 0, minute |-> 0, second |-> 0],
                          [month |-> 12, day |-> 25, hour |-> 13, minute |-> 5, second |-> 59]}]]

(* The encoder applied; the processed message is kept beside the output *)
Encode ==
    /\ given.fn = "into_print_data"
    /\ result = <<>>
    /\ result' = <<[out |-> into_print_data(given.self),
                    processed_message |->
                        IF given.self.message = <<>> THEN <<>>
                        ELSE ProcessedMessage(given.self.message[1])]>>
    /\ UNCHANGED <<pc, cancelled, left, feed, stamps, reasons, tapped, wire, given,
                   chanVars, dispVars, ghVars, bsVars, twVars>>

InitData ==
    /\ Constructed
    /\ left = 0
    /\ feed = {}
    /\ stamps = {}
    /\ reasons = [a \in Adapters |-> {}]
    /\ tapped = {}
    /\ wire = <<>>
    /\ given \in GhGiven \cup TwGiven \cup EncGiven
    /\ result = <<>>

NextData == GhConvert \/ TwConvert \/ Encode

SpecData == InitData /\ [][NextData]_vars

----------------------------------------------------------------------------
(* The program                                                              *)

Next == Interrupt \/ MainExit \/ PrinterStep \/ GithubStep \/ BskyStep \/ TwitchStep

Spec == Init /\ [][Next]_vars

(* Scheduling: a spawned task that can go on is polled again, a pending    *)
(* network or stream operation completes (with a result or an error), a    *)
(* timer elapses, and task_tracker.wait() returns when it can.  Nothing    *)
(* makes the operator interrupt: Interrupt has no fairness.                *)
Fairness ==
    /\ WF_vars(MainExit)
    /\ WF_vars(PrinterStep)
    /\ WF_vars(GithubStep)
    /\ WF_vars(BskyStep)
    /\ WF_vars(TwitchStep)

(* The runs checked for liveness: the same program, fewer events and one   *)
(* Last-Modified value                                                     *)
InitFair ==
    /\ Constructed
    /\ left = MaxFairEvents
    /\ feed = Adapters
    /\ stamps = {1}
    /\ reasons = [a \in Adapters |-> UsualKinds(a)]
    /\ tapped = {}
    /\ wire = <<>>
    /\ given = <<>>
    /\ result = <<>>

FairSpec == InitFair /\ [][Next]_vars /\ Fairness

(* A weaker scheduling assumption, which every behaviour of FairSpec       *)
(* satisfies: as long as main or some task can go on, one of them does     *)
SomeUnitRuns == MainExit \/ PrinterStep \/ GithubStep \/ BskyStep \/ TwitchStep

ProgressSpec == InitFair /\ [][Next]_vars /\ WF_vars(SomeUnitRuns)

(* The flooding scenario: upstream of github has more events than the      *)
(* channel holds, and only github, process_prints and the interrupt are    *)
(* scheduled; the twitch and bsky tasks are spawned and not yet polled.    *)
(* The server hands out one Last-Modified value.                           *)
InitFull ==
    /\ Constructed
    /\ left = QueueCap + MaxExtra
    /\ feed = {"github"}
    /\ stamps = {1}
    /\ reasons = [a \in Adapters |-> UsualKinds(a)]
    /\ tapped = {}
    /\ wire = <<>>
    /\ given = <<>>
    /\ result = <<>>

NextFull == Interrupt \/ PrinterStep \/ GithubStep

SpecFull == InitFull /\ [][NextFull]_vars

(* The flooding scenario for liveness: the events are all comments, and the *)
(* github task, once it can go on, is scheduled                             *)
InitFlood ==
    /\ Constructed
    /\ left = QueueCap + MaxExtra
    /\ feed = {"github"}
    /\ stamps = {}
    /\ reasons = [a \in Adapters |-> IF a = "github" THEN {"comment"} ELSE {}]
    /\ tapped = {}
    /\ wire = <<>>
    /\ given = <<>>
    /\ result = <<>>

SpecFlood == InitFlood /\ [][NextFull]_vars /\ WF_vars(GithubStep)

(* One adapter under observation: upstream has events for adapter a only,  *)
(* its traffic is recorded, and github's server reports every kind of      *)
(* event; the other two adapters are spawned and not yet polled.           *)
InitTap(a) ==
    /\ Constructed
    /\ left = MaxEvents
    /\ feed = {a}
    /\ stamps = 1..(NumTokens + 1)
    /\ reasons = [b \in Adapters |-> AllKinds(b)]
    /\ tapped = {a}
    /\ wire = <<>>
    /\ given = <<>>
    /\ result = <<>>

InitBs == InitTap("bsky")

NextBs == Interrupt \/ PrinterStep \/ BskyStep

SpecBs == InitBs /\ [][NextBs]_vars

InitTw == InitTap("twitch")

NextTw == Interrupt \/ PrinterStep \/ TwitchStep

SpecTw == InitTw /\ [][NextTw]_vars

(* The same, where the twitch task is polled again whenever it can go on  *)
(* (a frame, the answer to a request, the 40 s timer or the cancellation)  *)
FairSpecTw == InitTw /\ [][NextTw]_vars /\ WF_vars(TwitchStep)

InitGh == InitTap("github")

SpecGh == InitGh /\ [][NextFull]_vars

----------------------------------------------------------------------------
(* Reading the printer stream                                               *)

ChunkJob(i) == printer[i][1]
ChunkSeg(i) == printer[i][2]
ChunkDone(i) == printer[i][3]

(* Index of the first chunk of the block chunk i belongs to *)
BlockStart(i) == i - ((i - 1) % Len(Segments))

(* Indices of the chunks that start the bytes of a job *)
JobStarts == {i \in 1..Len(printer) : ChunkSeg(i) = 1}

----------------------------------------------------------------------------
(* C1: at every moment the printer stream is a concatenation of complete    *)
(* blocks, each the four writes of one job in order (print data, feed, cut, *)
(* form feed), followed by at most one incomplete block; the bytes of two   *)
(* jobs are never interleaved.                                              *)
C1_StreamIsBlocks ==
    \A i \in 1..Len(printer) :
        /\ ChunkSeg(i) = ((i - 1) % Len(Segments)) + 1
        /\ ChunkJob(i) = ChunkJob(BlockStart(i))
        /\ ChunkJob(i) # NoJob
        /\ i < Len(printer) => ChunkDone(i)

(* A complete block of one adapter's job is followed by the block of       *)
(* another adapter's job, which is still being written                     *)
C1_Witness ==
    /\ Len(printer) > Len(Segments)
    /\ Len(printer) < 2 * Len(Segments)
    /\ ChunkJob(1)[1] # ChunkJob(Len(printer))[1]
    /\ pc["printer"] = "write"

C5_ExitAfterAllEnded == pc["main"] = "exited" => AllTasksEnded

(* main has returned, after an adapter stopped on the cancellation and      *)
(* another task ended by a panic                                            *)
C5_Witness ==
    /\ pc["main"] = "exited"
    /\ \E t \in Tasks : pc[t] = "done"
    /\ \E t \in Tasks : pc[t] = "panicked"

(* C6: after the interrupt, if every pending operation and sleep completes, *)
(* every task ends and main returns.                                        *)
C6_InterruptLeadsToExit == cancelled ~> (pc["main"] = "exited")

(* main has returned and every task stopped on the cancellation *)
C6_Witness ==
    /\ pc["main"] = "exited"
    /\ \A t \in Tasks : pc[t] = "done"
    /\ printer # <<>>

(* C9: every job on the printer stream was accepted by the channel from an  *)
(* adapter, and no job is on the stream twice, also after a failed write.   *)
C9_WrittenOnceFromQueue ==
    /\ \A i \in JobStarts :
          /\ ChunkJob(i)[1] \in Adapters
          /\ ChunkJob(i)[2] \in 1..made[ChunkJob(i)[1]]
    /\ \A i, j \in JobStarts : ChunkJob(i) = ChunkJob(j) => i = j

(* A write failed in the middle of a job while another job was queued *)
C9_Witness ==
    /\ pc["printer"] = "panicked"
    /\ printer # <<>>
    /\ ~ChunkDone(Len(printer))
    /\ made["github"] + made["twitch"] + made["bsky"] > Cardinality(JobStarts)

(* C3: once the token is cancelled, process_prints takes no further job     *)
(* from the channel: it leaves the select! by the cancel arm only.          *)
C3_NoJobAfterCancel ==
    [][cancelled => ~(pc["printer"] = "select" /\ pc'["printer"] = "write")]_vars

(* C4: a failed write to the printer leads to every adapter stopping, with  *)
(* no interrupt from the operator needed.                                   *)
C4_WriteFailureStopsAdapters ==
    (pc["printer"] = "panicked") ~> (\A a \in Adapters : pc[a] \in Terminal)

(* C7: an adapter suspended at an await when the token is cancelled stops   *)
(* as its next step: it moves to no other await.                            *)
C7_CancelObservedAtEveryAwait ==
    [][\A a \in Adapters :
          (cancelled /\ pc[a] \notin {"start"} \cup Terminal /\ pc'[a] # pc[a])
              => pc'[a] \in Terminal]_vars

(* C8: the channel never holds more than 16 jobs; a send is accepted only   *)
(* when fewer than 16 are queued, and then appends its job; an adapter      *)
(* sending to a full channel stays suspended as long as the queue is        *)
(* unchanged and the receiver lives; and the queue loses a job only to the  *)
(* receiver (recv takes the oldest one, or the receiver is dropped).        *)
C8_BoundedQueue ==
    [][/\ Len(queue') <= QueueCap
       /\ \A a \in Adapters :
             /\ made'[a] # made[a] =>
                   /\ Len(queue) < QueueCap
                   /\ queue' = Append(queue, <<a, made'[a]>>)
             /\ (pc[a] = "send" /\ Len(queue) = QueueCap /\ queue' = queue
                    /\ pc'["printer"] \notin Terminal)
                   => pc'[a] = "send"
       /\ (queue' # queue /\ made' = made) =>
             \/ queue' = Tail(queue) /\ data' = Head(queue)
             \/ queue' = <<>> /\ pc'["printer"] \in Terminal]_vars

(* github is suspended in send on a channel holding 16 jobs *)
C8_Witness ==
    /\ Len(queue) = QueueCap
    /\ pc["github"] = "send"
    /\ pc["printer"] \notin Terminal

(* C10: in bsky, with both tokens held, a list call answered with the       *)
(* authorization failure clears the access token, keeps the refresh token   *)
(* and makes the refresh request the next one, unless the token is          *)
(* cancelled, in which case the adapter returns.                            *)
C10_ExpiryLeadsToRefresh ==
    [][(BsListExpired /\ access_token /\ refresh_jwt) =>
          IF cancelled
          THEN pc'["bsky"] = "done"
          ELSE /\ ~access_token'
               /\ refresh_jwt'
               /\ pc'["bsky"] = "refresh"]_vars

(* bsky is waiting for the answer to a refresh request after an expiry *)
C10_Witness ==
    /\ pc["bsky"] = "refresh"
    /\ ~access_token
    /\ refresh_jwt

(* C11: in bsky an unread event with the reason "like" never makes a job,   *)
(* whatever else it carries, and the adapter goes on: no job is accepted    *)
(* while the event at hand is a like, and a response made of one like       *)
(* leaves the adapter running.                                              *)
C11_LikesSkipped ==
    [][/\ made'["bsky"] # made["bsky"] => BsReason(Head(unread)) # "like"
       /\ (/\ Len(wire') = Len(wire) + 1
           /\ wire'[Len(wire')][1] = "bsky"
           /\ BsReason(wire'[Len(wire')][2]) = "like")
              => pc'["bsky"] \notin Terminal]_vars

(* C12: when twitch's inner select! sees no frame for 40 s, the adapter      *)
(* closes the socket, forgets the redirect endpoint and connects again; it  *)
(* ends only if the token is cancelled as well.  The timeout arm is taken   *)
(* from the select! only, and once the close returns the endpoint is None   *)
(* and the next await is the connect, or the adapter has returned because   *)
(* of the cancellation.                                                     *)
C12_TimeoutReconnects ==
    [][/\ (pc'["twitch"] = "close_timeout" /\ pc["twitch"] # "close_timeout")
              => pc["twitch"] \in {"streaming", "stream_ended"}
       /\ (pc["twitch"] = "close_timeout" /\ pc'["twitch"] # "close_timeout")
              => /\ custom_connect_url' = None
                 /\ pc'["twitch"] = IF cancelled THEN "done" ELSE "connect"]_vars

(* The 40 s went by after a notification was handled and its job accepted:  *)
(* the socket is being closed, and the token is not cancelled               *)
C12_Witness ==
    /\ pc["twitch"] = "close_timeout"
    /\ made["twitch"] = 1
    /\ ~cancelled

(* C13 as the claim states it: for the event {comment, "org/app",           *)
(* "Bug 42"} and the detail {"alice", "looks good"} exactly one job is      *)
(* sent, with title "New Issue Comment", subtitle "org/app\nBug 42" and     *)
(* message "alice:\nlooks good".                                            *)
C13_ScenarioJobAsStated ==
    (/\ given.fn = "github"
     /\ given.notif.reason = "comment"
     /\ given.notif.repository = "org/app"
     /\ given.notif.title = "Bug 42"
     /\ given.latest_comment_data = [login |-> "alice", body |-> "looks good"]
     /\ result # <<>>)
        => /\ Len(result[1].sent) = 1
           /\ result[1].sent[1].title = "New Issue Comment"
           /\ result[1].sent[1].subtitle = <<"org/app\nBug 42">>
           /\ result[1].sent[1].message = <<"alice:\nlooks good">>

(* C13, amended: for that event and detail exactly one job is sent, with    *)
(* title "GitHub: New Issue Comment", subtitle "Repo: org/app\nBug 42" and  *)
(* message "alice:\nlooks good".                                            *)
C13_ScenarioJob ==
    (/\ given.fn = "github"
     /\ given.notif.reason = "comment"
     /\ given.notif.repository = "org/app"
     /\ given.notif.title = "Bug 42"
     /\ given.latest_comment_data = [login |-> "alice", body |-> "looks good"]
     /\ result # <<>>)
        => /\ Len(result[1].sent) = 1
           /\ result[1].sent[1].title = "GitHub: New Issue Comment"
           /\ result[1].sent[1].subtitle = <<"Repo: org/app\nBug 42">>
           /\ result[1].sent[1].message = <<"alice:\nlooks good">>

(* The scenario's event has been handled *)
C13_Witness ==
    /\ given.fn = "github"
    /\ given.notif = [reason |-> "comment", repository |-> "org/app", title |-> "Bug 42",
                      updated_at |-> "2024-01-01T00:00:00Z"]
    /\ given.latest_comment_data = [login |-> "alice", body |-> "looks good"]
    /\ result # <<>>


(* C14: for every message body the encoder trims leading and trailing      *)
(* whitespace and then emits exactly one byte per remaining character: LF  *)
(* for a whitespace character that is not a plain space, the space byte    *)
(* for a plain space, and for any other character a byte that is not LF    *)
(* and that no different character of the message is turned into.         *)
C14_WhitespaceLaw ==
    (/\ given.fn = "into_print_data"
     /\ given.self.message # <<>>
     /\ result # <<>>)
    => LET trimmed == Trim(given.self.message[1])
           bytes == result[1].processed_message
           Plain(c) == ~IsWhitespace(c)
       IN  /\ Len(bytes) = Len(trimmed)
           /\ \A i \in 1..Len(trimmed) :
                /\ (IsWhitespace(trimmed[i]) /\ trimmed[i] # 32) => bytes[i] = LF
                /\ trimmed[i] = 32 => bytes[i] = 32
                /\ Plain(trimmed[i]) =>
                     /\ bytes[i] # LF
                     /\ \A j \in 1..Len(trimmed) :
                          (Plain(trimmed[j]) /\ bytes[j] = bytes[i]) => trimmed[j] = trimmed[i]

(* C15 as stated: for every job the encoder output is, in this order:      *)
(* device init; smoothing and condensed font; centre; 2x2 size; title;     *)
(* LF; default font, then feed one line; 1x1 size and left; the subtitle   *)
(* segment iff there is a subtitle; the message segment iff there is a     *)
(* message; the timestamp line and LF, with nothing else in between.       *)
C15_OutputOrderAsStated ==
    (given.fn = "into_print_data" /\ result # <<>>)
    => LET self == given.self
           head == <<ESC, 64>> \o <<GS, 98, 1, ESC, 77, 1>> \o <<ESC, 97, 1>>
                   \o <<GS, 33, 17>> \o AsBytes(self.title) \o <<LF>>
           subtitle == IF self.subtitle = <<>> THEN <<>>
                       ELSE <<ESC, 100, 0>> \o AsBytes(self.subtitle[1]) \o <<LF>>
                            \o [i \in 1..48 |-> 45] \o <<LF>>
           message == IF self.message = <<>> THEN <<>>
                      ELSE <<ESC, 100, 1>> \o result[1].processed_message \o <<LF>>
           stamp == TimestampLabel \o HumanTime(self.timestamp) \o <<LF>>
       IN  result[1].out
             = head \o <<ESC, 77, 0>> \o <<ESC, 100, 0>> \o <<GS, 33, 0>> \o <<ESC, 97, 0>>
               \o subtitle \o message \o stamp

(* C15, amended: for every job the encoder output is, in this order:       *)
(* device init; smoothing and condensed font; centre; 2x2 size; title;     *)
(* LF; feed one line, then default font; 1x1 size and left; the subtitle   *)
(* segment (feed, subtitle, LF, 48 dashes, LF) iff there is a subtitle;    *)
(* the message segment (feed, processed message, LF) iff there is a        *)
(* message; a feed, the timestamp line and LF. It does not end with the    *)
(* closing trailer (feed 6 lines, cut, form feed).                         *)
C15_OutputOrder ==
    (given.fn = "into_print_data" /\ result # <<>>)
    => LET self == given.self
           out == result[1].out
           head == <<ESC, 64>> \o <<GS, 98, 1, ESC, 77, 1>> \o <<ESC, 97, 1>>
                   \o <<GS, 33, 17>> \o AsBytes(self.title) \o <<LF>>
           subtitle == IF self.subtitle = <<>> THEN <<>>
                       ELSE <<ESC, 100, 0>> \o AsBytes(self.subtitle[1]) \o <<LF>>
                            \o [i \in 1..48 |-> 45] \o <<LF>>
           message == IF self.message = <<>> THEN <<>>
                      ELSE <<ESC, 100, 1>> \o result[1].processed_message \o <<LF>>
           stamp == <<ESC, 100, 1>> \o TimestampLabel \o HumanTime(self.timestamp) \o <<LF>>
           closing == <<ESC, 100, 6, LF, ESC, 105, 12>>
       IN  /\ out = head \o <<ESC, 100, 0>> \o <<ESC, 77, 0>> \o <<GS, 33, 0>> \o <<ESC, 97, 0>>
                    \o subtitle \o message \o stamp
           /\ SubSeq(out, Len(out) - Len(closing) + 1, Len(out)) # closing

(* A job with a subtitle and a message of several characters was encoded *)
C15_Witness ==
    /\ given.fn = "into_print_data"
    /\ given.self.subtitle # <<>>
    /\ given.self.message # <<>>
    /\ Len(given.self.message[1]) = MaxMsgLen
    /\ result # <<>>
    /\ Len(result[1].out) > 48

(* Whether the string sub occurs in the string str *)
Contains(str, sub) ==
    \E i \in 1..(Len(str) - Len(sub) + 1) : SubSeq(str, i, i + Len(sub) - 1) = sub

(* C16 as stated: a notification frame that carries a source id and whose  *)
(* lookup succeeds makes exactly one job, titled "<source> is Live", whose  *)
(* message contains "Category: <game_name>" and "Tags: <tags joined by      *)
(* ', '>", and the adapter stays in Streaming on the same connection.       *)
C16_LiveJobAsStated ==
    (/\ given.fn = "twitch"
     /\ given.frame.message_type = "notification"
     /\ given.frame.broadcaster_user_id # <<>>
     /\ given.lookup # <<>>
     /\ result # <<>>)
        => /\ Len(result[1].sent) = 1
           /\ result[1].sent[1].title = given.lookup[1].broadcaster_name \o " is Live"
           /\ Contains(result[1].sent[1].message[1], "Category: " \o given.lookup[1].game_name)
           /\ Contains(result[1].sent[1].message[1],
                       "Tags: " \o Join(given.lookup[1].tags, ", "))
           /\ result[1].then = "streaming"

(* C16, amended: such a frame makes exactly one job, titled                 *)
(* "Twitch: <broadcaster_name> is Live", without subtitle, whose message    *)
(* contains "Category: <game_name>" and "Tags: <tags joined by ', '>" (for  *)
(* game "Indie" and tags chill, co-op: "Category: Indie" and                *)
(* "Tags: chill, co-op"), and the adapter stays in Streaming on the same    *)
(* connection.                                                              *)
C16_LiveJob ==
    (/\ given.fn = "twitch"
     /\ given.frame.message_type = "notification"
     /\ given.frame.broadcaster_user_id # <<>>
     /\ given.lookup # <<>>
     /\ result # <<>>)
        => LET job == result[1].sent[1]
               info == given.lookup[1]
           IN  /\ Len(result[1].sent) = 1
               /\ job.title = "Twitch: " \o info.broadcaster_name \o " is Live"
               /\ job.subtitle = <<>>
               /\ Contains(job.message[1], "Category: " \o info.game_name)
               /\ Contains(job.message[1], "Tags: " \o Join(info.tags, ", "))
               /\ (info.game_name = "Indie" /\ info.tags = <<"chill", "co-op">>)
                    => /\ Contains(job.message[1], "Category: Indie")
                       /\ Contains(job.message[1], "Tags: chill, co-op")
               /\ result[1].then = "streaming"

(* The notification of the scenario has been handled *)
C16_Witness ==
    /\ given.fn = "twitch"
    /\ given.frame.message_type = "notification"
    /\ given.frame.broadcaster_user_id # <<>>
    /\ given.lookup = <<[title |-> "Playing games", game_name |-> "Indie",
                         tags |-> <<"chill", "co-op">>, broadcaster_name |-> "RTGame"]>>
    /\ result # <<>>
    /\ result[1].sent # <<>>

(* C17: a transport failure of github's list request enqueues no job and   *)
(* leaves the stored Last-Modified value as it is; the adapter then waits   *)
(* 5 s, during which it makes no job and the value stays, and after the     *)
(* wait its next await is a new list request (it returns instead if the     *)
(* token is cancelled), never the wait of the poll interval.                *)
C17_FailureRetriesAfterFive ==
    [][/\ (pc["github"] = "list" /\ pc'["github"] = "sleep5")
              => /\ made' = made
                 /\ queue' = queue
                 /\ last_modified_time' = last_modified_time
       /\ (pc["github"] = "sleep5" /\ pc'["github"] = "sleep5")
              => /\ made'["github"] = made["github"]
                 /\ last_modified_time' = last_modified_time
       /\ (pc["github"] = "sleep5" /\ pc'["github"] # "sleep5")
              => \/ pc'["github"] = "list" /\ last_modified_time' = last_modified_time
                                           /\ made' = made
                 \/ cancelled /\ pc'["github"] = "done"]_vars

(* The list request failed after a response had set the Last-Modified      *)
(* value and a job had been made: the 5 s wait is running                   *)
C17_Witness ==
    /\ pc["github"] = "sleep5"
    /\ last_modified_time # None
    /\ made["github"] > 0
    /\ ~cancelled

(* The Last-Modified value of the most recent response that had one, by the *)
(* record of github's traffic; None when no response had one                *)
LatestStamp ==
    LET headers == {i \in 1..Len(wire) : ~IsEvent(wire[i])}
    IN  IF headers = {} THEN None
        ELSE wire[CHOOSE i \in headers : \A j \in headers : j <= i][3]

(* C18: while github runs, the value it stores, which is the header of the  *)
(* list request it builds next, is the Last-Modified value of the most      *)
(* recent response that supplied one, and is absent while no response has   *)
(* supplied one: the first request carries none, a response without the     *)
(* header leaves the stored value as it is, and once set it is never        *)
(* absent again.                                                            *)
C18_FreshnessToken ==
    [][("github" \in tapped /\ pc'["github"] \notin Terminal)
         => /\ last_modified_time' = LatestStamp'
            /\ last_modified_time # None => last_modified_time' # None
            /\ (pc["github"] = "start" /\ pc'["github"] = "list") => last_modified_time' = None]_vars

(* A response later than the first one supplied a value, the events that   *)
(* came with it are handled, and a further request is out with that value   *)
C18_Witness ==
    /\ "github" \in tapped
    /\ pc["github"] = "list"
    /\ last_modified_time = NumTokens + 1
    /\ Len(wire) >= 3
    /\ wire[1] = <<"github", "comment">>
    /\ wire[2] = <<"github", "Last-Modified", NumTokens + 1>>
    /\ made["github"] = 1

C20_MarkAfterAccepted ==
    [][/\ (pc'["github"] = "mark" /\ pc["github"] # "mark")
              => /\ pc["github"] = "send"
                 /\ Len(queue) < QueueCap
                 /\ made'["github"] = made["github"] + 1
                 /\ queue' = Append(queue, <<"github", made'["github"]>>)
                 /\ notifs' = notifs
       /\ (pc["github"] \in {"detail", "send"} /\ pc'["github"] # pc["github"]
             /\ made'["github"] = made["github"])
              => pc'["github"] \in {"send", "panicked"}
       /\ (pc["github"] = "send" /\ Len(queue) = QueueCap /\ ReceiverAlive)
              => pc'["github"] = "send"]_vars

(* The job of an event took the last free slot of the queue, and the        *)
(* request that marks the event read is out                                 *)
C20_Witness ==
    /\ pc["github"] = "mark"
    /\ Len(queue) = QueueCap
    /\ queue[QueueCap] = <<"github", made["github"]>>

C22_SleepBetweenIterations ==
    [][(/\ pc["bsky"] \notin {"start", pc'["bsky"]}
        /\ \/ pc'["bsky"] \in {"login", "refresh", "done"}
           \/ pc'["bsky"] = "list" /\ pc["bsky"] \notin {"login", "refresh"})
         => \/ pc["bsky"] = "sleep10"
            \/ pc["bsky"] = "list" /\ access_token /\ ~access_token']_vars

(* C23: whatever the outcome of bsky's update of the last-read marker, a    *)
(* failure included, the adapter does not end and keeps both tokens: its    *)
(* next step is the 10 s sleep.                                             *)
C23_SeenFailureNotFatal ==
    [][(pc["bsky"] = "update_seen" /\ pc'["bsky"] # "update_seen")
         => /\ pc'["bsky"] = "sleep10"
            /\ access_token' = access_token
            /\ refresh_jwt' = refresh_jwt]_vars

(* C24: twitch ends only after the cancellation: a failed connect, a        *)
(* missing or malformed welcome, a failed subscription request, the         *)
(* inactivity timeout, a session_reconnect message and a close frame all    *)
(* lead back to the connect, so the adapter is in a terminal state only if  *)
(* the token is cancelled.                                                  *)
C24_EndsOnlyOnCancel ==
    pc["twitch"] \in Terminal => cancelled

(* C25: when twitch has received a session_reconnect message with a         *)
(* redirect endpoint, the connect that follows opens the socket to that     *)
(* endpoint; without one (a close frame, or after the timeout forgot it) it *)
(* opens the socket to the default endpoint.                                *)
C25_RedirectHonoured ==
    [][("twitch" \in tapped /\ wire' # wire /\ ~IsEvent(wire'[Len(wire')])
          /\ pc'["twitch"] = "connect")
         => LET frame == wire'[Len(wire')]
            IN  ConnectUrl(custom_connect_url')
                  = IF frame[2] = "session_reconnect" THEN frame[3] ELSE DEFAULT_WS_URL]_vars

(* The session id of the latest welcome twitch received, by the record      *)
LatestWelcome ==
    LET welcomes == {i \in 1..Len(wire) : ~IsEvent(wire[i]) /\ wire[i][2] = "session_welcome"}
    IN  IF welcomes = {} THEN None ELSE wire[CHOOSE i \in welcomes : TRUE][3]

(* C26: on a connection made without a redirect endpoint twitch issues,     *)
(* after the welcome and before it handles any frame, exactly one           *)
(* subscription request per configured source id, each with the session id  *)
(* of this connection's welcome; on a redirected connection it issues none. *)
(* The requests follow the welcome iff there is no redirect endpoint, they  *)
(* are counted one by one, each carries the id of the welcome just          *)
(* received, and the select! on the frames starts after the last of them.   *)
C26_SubscribesPerConnection ==
    [][/\ (pc["twitch"] = "welcome" /\ pc'["twitch"] \notin {"welcome", "panicked"})
              => /\ pc'["twitch"] = IF custom_connect_url = None THEN "subscribe" ELSE "streaming"
                 /\ subs' = 0
       /\ (pc["twitch"] = "subscribe" /\ "twitch" \in tapped)
              => session_id = LatestWelcome /\ session_id # None
       /\ (pc["twitch"] = "subscribe" /\ pc'["twitch"] \notin {"subscribe", "panicked"})
              => /\ pc'["twitch"] = "streaming"
                 /\ subs = NumBroadcasters - 1
                 /\ session_id' = session_id
       /\ (pc["twitch"] = "subscribe" /\ pc'["twitch"] = "subscribe" /\ subs' # subs)
              => subs' = subs + 1 /\ session_id' = session_id
       /\ (pc'["twitch"] = "streaming" /\ pc["twitch"] \in {"connect", "ping", "welcome"})
              => custom_connect_url # None]_vars

(* On a connection made after a notification had been received on an       *)
(* earlier one, the welcome carried a session id and the last subscription  *)
(* request has been answered                                                *)
C26_Witness ==
    /\ "twitch" \in tapped
    /\ pc["twitch"] = "streaming"
    /\ Len(wire) = 2
    /\ wire[1] = <<"twitch", "notification">>
    /\ wire[2] = <<"twitch", "session_welcome", NumTokens + 1>>
    /\ session_id = NumTokens + 1

(* C27: an event whose payload is malformed or lacks an expected field      *)
(* makes no job and does not end the adapter that receives it: when the     *)
(* first event of a response is such an event, the adapter has made no job  *)
(* for it and is not in a terminal state once it has looked at it.          *)
C27_MalformedSkipped ==
    [][\A a \in tapped :
        LET before == SelectSeq(wire, IsEvent)
            after == SelectSeq(wire', IsEvent)
        IN  (/\ Len(after) > Len(before)
             /\ after[Len(before) + 1][1] = a
             /\ after[Len(before) + 1][2] \in {"malformed", "like_untimed"})
              => /\ made'[a] = made[a]
                 /\ pc'[a] \notin Terminal]_vars

(* C28: in github and bsky an answer to the list request that delivers no   *)
(* events, whatever it is (another status than success, a 304 with an empty *)
(* body), makes no job and does not end the adapter: it waits and polls     *)
(* again, or, for bsky's authorization failure, renews the session.         *)
C28_BadListAnswerNotFatal ==
    [][\A a \in {"github", "bsky"} :
        (pc[a] = "list" /\ pc'[a] # "list" /\ left' = left)
          => /\ made'[a] = made[a]
             /\ pc'[a] \in IF a = "github" THEN {"sleep5", "sleep_poll"}
                           ELSE {"sleep10", "refresh", "login", "done"}]_vars

(* C29: while bsky's list request is out, and from the first login on at    *)
(* every await of the loop, an access token is held only together with a    *)
(* refresh token; the list request is issued with both.                     *)
C29_TokensHeldTogether ==
    /\ pc["bsky"] \in {"list", "profile", "send", "update_seen"} => access_token /\ refresh_jwt
    /\ access_token => refresh_jwt

(* After a job was made a further list request is out, with both tokens *)
C29_Witness ==
    /\ pc["bsky"] = "list"
    /\ made["bsky"] > 0
    /\ access_token
    /\ refresh_jwt

(* C30: once process_prints has ended, an adapter whose send is pending,    *)
(* suspended on a full queue or not, does not stay there: the send fails    *)
(* and the adapter reaches a terminal state.                                *)
C30_SendAfterDispatcherEnds ==
    \A a \in Adapters : (pc[a] = "send" /\ ~ReceiverAlive) ~> (pc[a] \in Terminal)

(* github filled the queue and its next send was pending when the           *)
(* dispatcher, which had received nothing, ended on the cancellation        *)
C30_Witness ==
    /\ pc["github"] = "send"
    /\ made["github"] = QueueCap
    /\ pc["printer"] = "done"
    /\ printer = <<>>
    /\ data = NoJob
    /\ queue = <<>>

(* C31: when twitch's stream errs or ends without a close frame while the   *)
(* adapter is in its select!, the adapter neither ends nor stays there: if  *)
(* the token is not cancelled it gets to the connect again, through the     *)
(* 40 s arm, and no job is sent on the way.  From the select! with the      *)
(* stream arm disabled, and from the close that follows, no job is made,    *)
(* nothing panics, the adapter returns only under cancellation, and the     *)
(* connect (or the cancellation) does come.                                 *)
C31_BrokenStreamReconnects ==
    /\ [][pc["twitch"] \in {"stream_ended", "close_timeout"}
            => /\ made'["twitch"] = made["twitch"]
               /\ queue' = queue \/ Len(queue') < Len(queue)
               /\ pc'["twitch"] \in {"stream_ended", "close_timeout", "close_cancel",
                                     "connect", "done"}
               /\ pc'["twitch"] \in {"close_cancel", "done"} => cancelled]_vars
    /\ (pc["twitch"] = "stream_ended" /\ ~cancelled)
          ~> (pc["twitch"] = "connect" \/ cancelled)

(* After a job had been accepted the stream ended, and the adapter is back  *)
(* at the connect with the token not cancelled                              *)
C31_Witness ==
    /\ "twitch" \in tapped
    /\ pc["twitch"] = "connect"
    /\ ~cancelled
    /\ made["twitch"] = 1
    /\ wire # <<>>
    /\ wire[Len(wire)] = <<"twitch", "stream_end", None>>

============================================================================
